---- MODULE Spec2Model ----
(***************************************************************************)
(* A model of LINZ_WFS.py: the command line utility that keeps a local     *)
(* mirror (a feature class in staging.gdb) of a LINZ layer up to date from *)
(* full exports and WFS changesets.                                        *)
(*                                                                         *)
(* The specifications share the variables:                                 *)
(*   SpecReconcile  applyChangeset applied (repeatedly) to every mirror    *)
(*                  and changeset table within the bounds;                 *)
(*   Spec           whole invocations of main(), one step per method or    *)
(*                  remote request, with the remote responses and the      *)
(*                  passage of time chosen nondeterministically;           *)
(*   SpecUpdates    applyChangeset on changesets of UPDATE records and     *)
(*                  mirrors with and without a column of their own;        *)
(*   SpecPurge      purgeChangesets on every data directory and retention  *)
(*                  count within the bounds;                               *)
(*   SpecFilter     the two post filters applied (repeatedly) to a table;  *)
(*   SpecConvert    convertIdFieldToInteger applied (repeatedly);          *)
(*   SpecParams     the wfs_params property;                               *)
(*   SpecFeed       downloadChangeSet with and without a stored            *)
(*                  last_updated value.                                    *)
(*                                                                         *)
(* Abstractions.  A row is a record id/val/shape: id is the configured     *)
(* id_field, val stands for the layer's attribute columns, shape is "in"   *)
(* when the geometry intersects the extent record and "out" otherwise.     *)
(* System columns (OBJECTID, Shape_Length, ...) are not modelled.  The     *)
(* staging store is a file geodatabase, where the UNIQUE flag of AddIndex  *)
(* is ignored, so Append adds rows whatever identifiers are present.       *)
(* Time is counted in whole seconds and utcnow() never decreases.          *)
(***************************************************************************)
EXTENDS Naturals, Sequences, FiniteSets, Bags, TLC

\* ------------------------------------------------------------------ bounds

\* identifiers are 1..MaxId
MaxId == 3
\* a changeset table of SpecReconcile holds at most MaxRecs records
MaxRecs == 2
\* applyChangeset is applied at most MaxApply times in SpecReconcile
MaxApply == 2
\* invocations of main() in one behaviour of Spec
MaxRuns == 2
\* the clock stops at MaxTime seconds
MaxTime == 2
\* the configured retain_after_purge
RetainAfterPurge == 1
\* configured poll_interval and max_polling_time (seconds), scaled down
PollInterval == 1
MaxPollingTime == 2
\* SpecPurge: artifacts are created at the instants 0..MaxStamp and
\* retain_after_purge is one of 0..MaxRetain
MaxStamp == 2
MaxRetain == 2
\* SpecFilter and SpecConvert repeat their operation MaxPasses times
MaxPasses == 2

Ids == 1..MaxId
Vals == {"a", "b"}
Shapes == {"in", "out"}
\* values of the __change__ column; "delete" is DELETE in another letter case
Tags == {"INSERT", "UPDATE", "DELETE", "delete"}

None == "None"

\* no exception
NoError == [type |-> None, export_id |-> None]
\* an exception of type t; export_id is the job identifier its message carries
Exc(t) == [type |-> t, export_id |-> None]

\* f"{t.isoformat()}Z": the instant t written as an ISO string with a Z
IsoZ(t) == [iso |-> t, suffix |-> "Z"]

\* the values of self.last_updated_datetime: a datetime object, or the
\* timeStamp string of a feature collection
Datetime(t) == [kind |-> "datetime", t |-> t]
Str(t) == [kind |-> "str", t |-> t]

VARIABLES
    pc,                     \* position of the running invocation
    action,                 \* self.action
    purge,                  \* self.purge
    runs,                   \* invocations started so far
    now,                    \* the clock read by time.time() and utcnow()
    export_id,              \* self.export_id
    start_time,             \* start_time of download_export
    attempt,                \* attempt of download_export
    full_download_file,     \* content of the zip at self.full_download_file
    changeset_file,         \* name and content of self.changeset_file
    changeset_fc,           \* the changeset table of this invocation
    layer_feature_class,    \* the mirror table
    last_updated_file,      \* content of last_updated.json, {} when absent
    last_updated_datetime,  \* self.last_updated_datetime, {} when None
    extent_geometry,        \* the record of the extent table, or None
    sql_filter,             \* the configured sql_filter, or None
    json_files,             \* changesets/*.json, by creation time
    zip_files,              \* full/*.zip, by creation time
    changeset_tables,       \* changeset feature classes of staging.gdb
    error,                  \* the exception that ended the invocation
    events,                 \* what this invocation has done so far
    report,                 \* counts logged by applyChangeset in this invocation
    before,                 \* the mirror rows before the last applyChangeset
    first_after,            \* the mirror rows after the first applyChangeset
    applied,                \* applications of the current changeset table
    args,                   \* the action selectors of the command line
    retain_after_purge,     \* self.retain_after_purge
    cql_filter,             \* the configured cql_filter, or None
    wfs_params,             \* cql_filter and bbox of the last wfs_params
    purged,                 \* what the last purgeChangesets found
    passes,                 \* completed passes of a repeated operation
    poll_json_response      \* poll_json_response as the poll loop last left it

vars == <<pc, action, purge, runs, now, export_id, start_time, attempt,
          full_download_file, changeset_file, changeset_fc,
          layer_feature_class, last_updated_file, last_updated_datetime,
          extent_geometry, sql_filter, json_files, zip_files,
          changeset_tables, error, events, report, before, first_after,
          applied, args, retain_after_purge, cql_filter, wfs_params, purged,
          passes, poll_json_response>>

\* ------------------------------------------------------------- tables

Range(s) == {s[i] : i \in DOMAIN s}

\* the rows of a sequence of rows, as a bag
BagOfSeq(s) == [e \in Range(s) |-> Cardinality({i \in DOMAIN s : s[i] = e})]

RECURSIVE SumCopies(_, _)
SumCopies(S, B) ==
    IF S = {} THEN 0
    ELSE LET e == CHOOSE x \in S : TRUE
         IN  B[e] + SumCopies(S \ {e}, B)

\* the bag of the images f[r] of the rows r of bag B
MapBag(f, B) ==
    [n \in {f[r] : r \in DOMAIN B} |->
        SumCopies({r \in DOMAIN B : f[r] = n}, B)]

\* the rows of bag B that are in the set S
KeepRows(B, S) == [r \in DOMAIN B \cap S |-> B[r]]

\* GetCount
GetCount(table) == BagCardinality(table.rows)

\* the columns of the mirror and of a changeset table
target_fields == {"id", "val", "shape"}
source_fields == {"id", "val", "shape", "__change__"}

\* LOWER() of the where clause
Lower(t) ==
    CASE t = "INSERT" -> "insert"
      [] t = "UPDATE" -> "update"
      [] t = "DELETE" -> "delete"
      [] OTHER -> t

\* the records of a changeset table selected by a where clause on __change__
SelectChange(records, tag) == SelectSeq(records, LAMBDA r : r["__change__"] = tag)

\* Append with NO_TEST: the columns the target has, the others are dropped
AppendRow(r) == [f \in target_fields |-> r[f]]

\* ------------------------------------------------- files and tables

\* no zip file
NoArchive == [exists |-> FALSE, valid |-> FALSE, id_type |-> None,
              rows |-> EmptyBag]
\* no json file
NoJson == [exists |-> FALSE, name |-> 0, parses |-> FALSE, numberReturned |-> 0,
           timeStamp |-> {}, features |-> <<>>]
\* no table
NoTable == [exists |-> FALSE, fields |-> {}, id_type |-> None,
            id_idx2 |-> FALSE,
            rows |-> EmptyBag]
NoChangesetFc == [exists |-> FALSE, name |-> 0, id_type |-> None,
                  id_idx2 |-> FALSE, rows |-> <<>>]

\* nothing purged yet: the artifacts purgeChangesets found, and those among
\* them that could not be deleted
NoLock == [json |-> {}, zip |-> {}, tables |-> {}]
NoPurge == [json |-> {}, zip |-> {}, tables |-> {}, locked |-> NoLock]

\* no status reply parsed yet
NoPollJson == [parses |-> FALSE, state |-> None, progress |-> "absent"]

\* no parameters built yet
NoParams == [cql_filter |-> None, bbox |-> {}]

\* ------------------------------------------------- processUpdates

\* updates_dict: the UPDATE records keyed by identifier; a later record of the
\* cursor replaces an earlier one with the same identifier
UpdatesDict(records) ==
    LET updates == SelectChange(records, "UPDATE")
        last(i) == CHOOSE k \in DOMAIN updates :
                      /\ updates[k].id = i
                      /\ \A j \in DOMAIN updates : updates[j].id = i => j <= k
    IN  [i \in {updates[k].id : k \in DOMAIN updates} |-> updates[last(i)]]

\* rows of the target that processUpdates rewrites
MatchedRows(rows, records) ==
    {r \in DOMAIN rows : r.id \in DOMAIN UpdatesDict(records)}

\* source_fields.index(field) raises ValueError for a target column the
\* changeset table lacks, at the first target row found in updates_dict
ProcessUpdatesRaises(fields, rows, records) ==
    /\ MatchedRows(rows, records) # {}
    /\ fields \ source_fields # {}

ProcessUpdatesSkipsAll(fields, rows, records) == rows

\* the rows of the target after processUpdates
ProcessUpdates(fields, rows, records) ==
    LET dict == UpdatesDict(records)
        new == [r \in DOMAIN rows |->
                  IF r.id \in DOMAIN dict
                  THEN [f \in target_fields |-> dict[r.id][f]]
                  ELSE r]
    IN  IF ProcessUpdatesRaises(fields, rows, records) THEN rows
        ELSE MapBag(new, rows)

\* ------------------------------------------------- applyChangeset

\* delete_ids: the identifiers of the records whose tag is delete in any case
DeleteIds(records) ==
    {records[k].id : k \in {j \in DOMAIN records :
                              Lower(records[j]["__change__"]) = "delete"}}

\* DeleteRows on the layer "id_field in (delete_ids)"
DeleteRows(rows, ids) == KeepRows(rows, {r \in DOMAIN rows : r.id \notin ids})

AppendUpserts(rows, records) ==
    LET ins == SelectChange(records, "INSERT")
        new == {AppendRow(ins[k]) : k \in DOMAIN ins}
    IN  KeepRows(rows, {r \in DOMAIN rows : \A n \in new : n.id # r.id})
            (+) SetToBag(new)

\* Append with expression "__change__ = 'INSERT'"
AppendInserts(rows, records) ==
    LET ins == SelectChange(records, "INSERT")
    IN  rows (+) BagOfSeq([k \in DOMAIN ins |-> AppendRow(ins[k])])

MismatchIsFatal(mismatch) == mismatch

\* expected_total # final_total is reported with logger.warning; nothing is
\* raised for it
MismatchRaises(mismatch) == FALSE

ApplyChangesetInsertsFirst(target, changeset) ==
    LET records == changeset.rows
        count_target == GetCount(target)
        count_inserts == Len(SelectChange(records, "INSERT"))
        count_updates == Len(SelectChange(records, "UPDATE"))
        count_deletes == Len(SelectChange(records, "DELETE"))
        delete_ids == DeleteIds(records)
        appended == IF count_inserts > 0
                    THEN AppendInserts(target.rows, records) ELSE target.rows
        inserted == IF count_deletes > 0
                    THEN DeleteRows(appended, delete_ids) ELSE appended
        raised == count_updates > 0 /\
                  ProcessUpdatesRaises(target.fields, inserted, records)
        updated == IF count_updates > 0
                   THEN ProcessUpdates(target.fields, inserted, records)
                   ELSE inserted
        final_total == BagCardinality(updated)
        \* count_target - count_deletes + count_inserts # final_total
        mismatch == ~raised /\
                    count_target + count_inserts # final_total + count_deletes
    IN  [rows |-> updated,
         count_inserts |-> count_inserts,
         count_updates |-> count_updates,
         count_deletes |-> count_deletes,
         count_target |-> count_target,
         final_total |-> final_total,
         warned |-> mismatch,
         raised |-> raised \/ MismatchRaises(mismatch)]

\* applyChangeset(): the target rows it leaves, the counts it logs, whether it
\* warns about the total and whether it raises
ApplyChangesetResult(target, changeset) ==
    LET records == changeset.rows
        count_target == GetCount(target)
        count_inserts == Len(SelectChange(records, "INSERT"))
        count_updates == Len(SelectChange(records, "UPDATE"))
        count_deletes == Len(SelectChange(records, "DELETE"))
        delete_ids == DeleteIds(records)
        deleted == IF count_deletes > 0
                   THEN DeleteRows(target.rows, delete_ids) ELSE target.rows
        inserted == IF count_inserts > 0
                    THEN AppendInserts(deleted, records) ELSE deleted
        raised == count_updates > 0 /\
                  ProcessUpdatesRaises(target.fields, inserted, records)
        updated == IF count_updates > 0
                   THEN ProcessUpdates(target.fields, inserted, records)
                   ELSE inserted
        final_total == BagCardinality(updated)
        \* count_target - count_deletes + count_inserts # final_total
        mismatch == ~raised /\
                    count_target + count_inserts # final_total + count_deletes
    IN  [rows |-> updated,
         count_inserts |-> count_inserts,
         count_updates |-> count_updates,
         count_deletes |-> count_deletes,
         count_target |-> count_target,
         final_total |-> final_total,
         warned |-> mismatch,
         raised |-> raised \/ MismatchRaises(mismatch)]

NoReport == [count_inserts |-> 0, count_updates |-> 0, count_deletes |-> 0,
             count_target |-> 0, final_total |-> 0, warned |-> FALSE]

ReportOf(res) == [f \in DOMAIN NoReport |-> res[f]]

\* ------------------------------------------------- SpecReconcile

\* sequences over S of length at most n
SeqsUpTo(S, n) == UNION {[1..k -> S] : k \in 0..n}

\* change records: the attribute values of a record tagged for deletion are
\* never read, so one value stands for all of them
ChangeRecords ==
    {[id |-> i, val |-> v, shape |-> "in", __change__ |-> t] :
        i \in Ids, v \in Vals, t \in {"INSERT", "UPDATE"}}
    \cup {[id |-> i, val |-> "a", shape |-> "in", __change__ |-> t] :
        i \in Ids, t \in {"DELETE", "delete"}}

\* mirrors as a full download leaves them: one row per identifier; the rows
\* with an odd identifier hold "a" and the others "b"
Mirrors ==
    {SetToBag({[id |-> i, val |-> IF i % 2 = 1 THEN "a" ELSE "b",
                shape |-> "in"] : i \in S}) : S \in SUBSET Ids}

InitReconcile ==
    /\ pc = "applyChangeset"
    /\ action = "PROCESSJSONCHANGESET"
    /\ purge = FALSE
    /\ runs = 1
    /\ now = 0
    /\ export_id = None
    /\ start_time = 0
    /\ attempt = 0
    /\ full_download_file = NoArchive
    /\ changeset_file = NoJson
    /\ changeset_fc \in {[exists |-> TRUE, name |-> 0, id_type |-> "Integer",
                           id_idx2 |-> TRUE, rows |-> s] :
                           s \in SeqsUpTo(ChangeRecords, MaxRecs)}
    /\ layer_feature_class \in
          {[exists |-> TRUE, fields |-> target_fields, id_type |-> "Integer",
            id_idx2 |-> TRUE, rows |-> m] : m \in Mirrors}
    /\ last_updated_file = {}
    /\ last_updated_datetime = {}
    /\ extent_geometry = None
    /\ sql_filter = None
    /\ json_files = {}
    /\ zip_files = {}
    /\ changeset_tables = {[name |-> 0, created |-> 0]}
    /\ error = NoError
    /\ events = {}
    /\ report = NoReport
    /\ before = EmptyBag
    /\ first_after = EmptyBag
    /\ applied = 0
    /\ args = {"localchangeset"}
    /\ retain_after_purge = RetainAfterPurge
    /\ cql_filter = None
    /\ wfs_params = NoParams
    /\ purged = NoPurge
    /\ passes = 0
    /\ poll_json_response = NoPollJson

\* applyChangeset() on the current mirror and changeset table
ReconcileApply ==
    /\ pc = "applyChangeset"
    /\ applied < MaxApply
    /\ error = NoError
    /\ LET res == ApplyChangesetResult(layer_feature_class, changeset_fc)
       IN  /\ layer_feature_class' =
                 [layer_feature_class EXCEPT !.rows = res.rows]
           /\ report' = ReportOf(res)
           /\ before' = layer_feature_class.rows
           /\ first_after' = IF applied = 0 THEN res.rows ELSE first_after
           /\ applied' = applied + 1
           /\ error' = IF res.raised THEN Exc("ValueError") ELSE NoError
    /\ UNCHANGED <<pc, action, purge, runs, now, export_id, start_time,
                   attempt, full_download_file, changeset_file, changeset_fc,
                   last_updated_file, last_updated_datetime, extent_geometry,
                   sql_filter, json_files, zip_files, changeset_tables,
                   events, args, retain_after_purge, cql_filter, wfs_params,
                   purged, passes, poll_json_response>>

NextReconcile == ReconcileApply

SpecReconcile == InitReconcile /\ [][NextReconcile]_vars

\* ------------------------------------------------- SpecUpdates

\* the columns of a mirror: those of the changeset table, or these and one
\* the changeset table does not have
MirrorSchemas == {target_fields, target_fields \cup {"note"}}

\* changesets of UPDATE records
UpdateRecords ==
    {[id |-> i, val |-> v, shape |-> "in", __change__ |-> "UPDATE"] :
        i \in Ids, v \in Vals}

InitUpdates ==
    /\ pc = "applyChangeset"
    /\ action = "PROCESSJSONCHANGESET"
    /\ purge = FALSE
    /\ runs = 1
    /\ now = 0
    /\ export_id = None
    /\ start_time = 0
    /\ attempt = 0
    /\ full_download_file = NoArchive
    /\ changeset_file = NoJson
    /\ changeset_fc \in {[exists |-> TRUE, name |-> 0, id_type |-> "Integer",
                           id_idx2 |-> TRUE, rows |-> s] :
                           s \in SeqsUpTo(UpdateRecords, MaxRecs)}
    /\ layer_feature_class \in
          {[exists |-> TRUE, fields |-> f, id_type |-> "Integer",
            id_idx2 |-> TRUE, rows |-> m] :
              f \in MirrorSchemas, m \in Mirrors}
    /\ last_updated_file = {}
    /\ last_updated_datetime = {}
    /\ extent_geometry = None
    /\ sql_filter = None
    /\ json_files = {}
    /\ zip_files = {}
    /\ changeset_tables = {[name |-> 0, created |-> 0]}
    /\ error = NoError
    /\ events = {}
    /\ report = NoReport
    /\ before = EmptyBag
    /\ first_after = EmptyBag
    /\ applied = 0
    /\ args = {"localchangeset"}
    /\ retain_after_purge = RetainAfterPurge
    /\ cql_filter = None
    /\ wfs_params = NoParams
    /\ purged = NoPurge
    /\ passes = 0
    /\ poll_json_response = NoPollJson

SpecUpdates == InitUpdates /\ [][NextReconcile]_vars

\* ------------------------------------------------- convertIdFieldToInteger

ConvertIdFieldSkipped(table) == table

ConvertIdFieldWithoutCopyBack(table) ==
    IF table.id_type \in {"Double", "Float", "Integer", "SmallInteger"}
    THEN [table EXCEPT !.id_type = "Integer", !.id_idx2 = TRUE,
                       !.rows = MapBag([r \in DOMAIN @ |-> [r EXCEPT !.id = 0]],
                                       @)]
    ELSE table

\* a Double, Float or SmallInteger identifier column becomes an Integer one
\* with the same values and the index id_idx2; an Integer column only gets
\* the index; a table without the column (id_type None) or with a column of
\* another type is left as it is
ConvertIdFieldToInteger(table) ==
    IF table.id_type = "Integer"
    THEN [table EXCEPT !.id_idx2 = TRUE]
    ELSE IF table.id_type \in {"Double", "Float", "SmallInteger"}
    THEN [table EXCEPT !.id_type = "Integer", !.id_idx2 = TRUE]
    ELSE table

\* ------------------------------------------------- inputs of an invocation

Selectors ==
    {"init", "download", "resume", "localfull", "changeset", "localchangeset"}

\* the command lines tried: no selector, each selector alone, and two pairs
ArgSets ==
    {{}} \cup {{a} : a \in Selectors}
    \cup {{"init", "download"}, {"changeset", "localchangeset"}}

\* init(): the first selector of the if chain decides, INIT when there is none
ActionOf(argv) ==
    IF "init" \in argv THEN "INIT"
    ELSE IF "download" \in argv THEN "REQUESTDOWNLOAD"
    ELSE IF "resume" \in argv THEN "DOWNLOADEXPORT"
    ELSE IF "localfull" \in argv THEN "PROCESSFULLDOWNLOAD"
    ELSE IF "changeset" \in argv THEN "REQUESTCHANGESET"
    ELSE IF "localchangeset" \in argv THEN "PROCESSJSONCHANGESET"
    ELSE "INIT"

\* main(): the first method each action calls
FirstStep(a) ==
    CASE a = "INIT" -> "prepare"
      [] a = "REQUESTDOWNLOAD" -> "prepare"
      [] a = "DOWNLOADEXPORT" -> "download_export"
      [] a = "PROCESSFULLDOWNLOAD" -> "copy_fc_to_staging"
      [] a = "REQUESTCHANGESET" -> "downloadChangeSet"
      [] a = "PROCESSJSONCHANGESET" -> "processChangeSet"

\* status_code in (200, 201, "200", "201")
StatusCodes == {200, 500}
StatusOk(status) == status \in {200, 201}

ExportIds == {"e1"}

Row(i, v, g) == [id |-> i, val |-> v, shape |-> g]
Change(i, v, g, t) == [id |-> i, val |-> v, shape |-> g, __change__ |-> t]

\* the zip files a download or the command line can name: one that is no
\* archive, and two archives of a file geodatabase with one feature class
Archives ==
    {[exists |-> TRUE, valid |-> FALSE, id_type |-> None, rows |-> EmptyBag],
     [exists |-> TRUE, valid |-> TRUE, id_type |-> "Double",
      rows |-> SetToBag({Row(1, "a", "in"), Row(2, "b", "out")})],
     [exists |-> TRUE, valid |-> TRUE, id_type |-> "Integer",
      rows |-> SetToBag({Row(1, "a", "in")})]}

\* the feature collections the feed or a local json file can hold
FeatureLists ==
    {<<>>,
     <<Change(3, "a", "in", "INSERT")>>,
     <<Change(2, "a", "in", "DELETE"), Change(1, "b", "in", "UPDATE")>>,
     <<Change(3, "b", "out", "INSERT")>>}

\* the json files named n: one that does not parse, one that parses and has
\* neither numberReturned nor timeStamp, and the feature collections with a
\* timeStamp among stamps
JsonFiles(n, stamps) ==
    {[exists |-> TRUE, name |-> n, parses |-> FALSE, numberReturned |-> 0,
      timeStamp |-> {}, features |-> <<>>],
     [exists |-> TRUE, name |-> n, parses |-> TRUE, numberReturned |-> 0,
      timeStamp |-> {}, features |-> <<>>]}
    \cup {[exists |-> TRUE, name |-> n, parses |-> TRUE,
           numberReturned |-> Len(f), timeStamp |-> {Str(t)},
           features |-> f] : f \in FeatureLists, t \in stamps}

\* the files --localfull and --localchangeset can name: a path with no file,
\* or one of the files above
LocalZips(a) ==
    IF a = "PROCESSFULLDOWNLOAD" THEN Archives \cup {NoArchive}
    ELSE {NoArchive}
LocalJsons(a) ==
    IF a = "PROCESSJSONCHANGESET" THEN JsonFiles(0, {0}) \cup {NoJson}
    ELSE {NoJson}

\* the instants a server may report at time t
Stamps(t) == {u \in {t - 1, t} : u \in 0..t}

\* replies to the validation request: is_valid of the one item is true,
\* false or absent
ValidateBodies ==
    {[parses |-> FALSE, is_valid |-> "absent"]}
    \cup {[parses |-> TRUE, is_valid |-> v] : v \in {"true", "false", "absent"}}

\* replies to a status request
PollBodies ==
    {[parses |-> FALSE, state |-> None, progress |-> "absent"]}
    \cup {[parses |-> TRUE, state |-> st, progress |-> pr] :
            st \in {"processing", "complete"},
            pr \in {"number", "empty", "absent"}}

\* ------------------------------------------------- Spec: initial state

Init ==
    /\ pc = "idle"
    /\ action = "INIT"
    /\ purge = FALSE
    /\ runs = 0
    /\ now = 0
    /\ export_id = None
    /\ start_time = 0
    /\ attempt = 0
    /\ full_download_file = NoArchive
    /\ changeset_file = NoJson
    /\ changeset_fc = NoChangesetFc
    /\ layer_feature_class = NoTable
    /\ last_updated_file = {}
    /\ last_updated_datetime = {}
    /\ extent_geometry \in {None, "polygon"}
    /\ sql_filter \in {None, "val = 'a'"}
    /\ json_files = {}
    /\ zip_files = {}
    /\ changeset_tables = {}
    /\ error = NoError
    /\ events = {}
    /\ report = NoReport
    /\ before = EmptyBag
    /\ first_after = EmptyBag
    /\ applied = 0
    /\ args = {}
    /\ retain_after_purge = RetainAfterPurge
    /\ cql_filter = None
    /\ wfs_params = NoParams
    /\ purged = NoPurge
    /\ passes = 0
    /\ poll_json_response = NoPollJson

\* the configuration and the counters no step of an invocation changes
config == <<extent_geometry, sql_filter, runs, before, first_after, applied,
            args, retain_after_purge, cql_filter, wfs_params, passes>>

\* an exception of type t leaves the method and, uncaught, main()
Raise(t) == pc' = "raised" /\ error' = Exc(t)

\* ------------------------------------------------- main()

\* main(args): init() builds the LINZDataset and main() dispatches on action
Start(argv, p, zip, json) ==
    /\ pc \in {"idle", "done", "raised"}
    /\ runs < MaxRuns
    /\ runs' = runs + 1
    /\ args' = argv
    /\ action' = ActionOf(argv)
    /\ purge' = p
    /\ export_id' = IF action' = "DOWNLOADEXPORT" THEN "e1" ELSE None
    /\ full_download_file' =
          IF action' = "PROCESSFULLDOWNLOAD" THEN zip ELSE NoArchive
    /\ changeset_file' =
          IF action' = "PROCESSJSONCHANGESET" THEN json ELSE NoJson
    /\ changeset_fc' = NoChangesetFc
    /\ last_updated_datetime' = {}
    /\ start_time' = 0
    /\ attempt' = 0
    /\ error' = NoError
    /\ events' = {}
    /\ purged' = NoPurge
    /\ report' = NoReport
    /\ poll_json_response' = NoPollJson
    /\ pc' = FirstStep(action')
    /\ UNCHANGED <<now, layer_feature_class, last_updated_file,
                   extent_geometry, sql_filter, json_files, zip_files,
                   changeset_tables, before, first_after, applied,
                   retain_after_purge, cql_filter, wfs_params, passes>>

\* prepare(): the data folder, staging.gdb and the extent table exist after it
Prepare ==
    /\ pc = "prepare"
    /\ pc' = IF action = "INIT" THEN "done" ELSE "validate"
    /\ events' = events \cup {"prepare"}
    /\ UNCHANGED <<action, purge, now, export_id, start_time, attempt,
                   full_download_file, changeset_file, changeset_fc,
                   layer_feature_class, last_updated_file,
                   last_updated_datetime, json_files, zip_files,
                   changeset_tables, error, report, purged, poll_json_response,
                   config>>

\* the positions whose step reads the clock (time.time(), utcnow(), or the
\* creation time given to a new table)
ReadsClock ==
    {"submit", "download_export", "polling", "download", "downloadChangeSet",
     "convertJsonToFGB", "update_last_updated_file"}

\* time passes; it is advanced in front of the steps that read the clock, an
\* advance in front of any other step being the same as one after it
Tick ==
    /\ now < MaxTime
    /\ pc \in ReadsClock
    /\ now' = now + 1
    /\ UNCHANGED <<pc, action, purge, export_id, start_time, attempt,
                   full_download_file, changeset_file, changeset_fc,
                   layer_feature_class, last_updated_file,
                   last_updated_datetime, json_files, zip_files,
                   changeset_tables, error, events, report, purged, poll_json_response,
                   config>>

\* ------------------------------------------------- initiate_export

\* what a reply to the validation request is, whatever is done with it
ValidateClass(status, body) ==
    IF ~StatusOk(status) THEN "validate_non2xx"
    ELSE IF ~body.parses THEN "validate_unparseable"
    ELSE IF body.is_valid = "false" THEN "validate_invalid"
    ELSE "validate_ok"

ValidationExceptionIgnoringItems(status, body) ==
    IF ~StatusOk(status) \/ ~body.parses THEN "LINZError" ELSE None

\* the exception the validation reply makes initiate_export raise, or None:
\* LINZError for a status other than 200 and 201 and for a body that is not
\* json; for an item with a false is_valid (an absent one counts as "true")
\* the NameError of json_response[items], raised before the LINZError
ValidationException(status, body) ==
    IF ~StatusOk(status) THEN "LINZError"
    ELSE IF ~body.parses THEN "LINZError"
    ELSE IF body.is_valid = "false" THEN "NameError"
    ELSE None

\* the POST to validation_url and the checks of its reply
Validate(status, body) ==
    /\ pc = "validate"
    /\ events' = events \cup {"validate_request", ValidateClass(status, body)}
    /\ IF ValidationException(status, body) # None
       THEN Raise(ValidationException(status, body))
       ELSE pc' = "submit" /\ error' = error
    /\ UNCHANGED <<action, purge, now, export_id, start_time, attempt,
                   full_download_file, changeset_file, changeset_fc,
                   layer_feature_class, last_updated_file,
                   last_updated_datetime, json_files, zip_files,
                   changeset_tables, report, purged, poll_json_response,
                   config>>

SubmitCommitsWatermark(file, utcnow) == {IsoZ(utcnow)}

\* last_updated.json after initiate_export: the method does not open it
LastUpdatedFileAfterSubmit(file, utcnow) == file

\* the POST to requests_url: the instant is kept in last_updated_datetime,
\* the reply gives the export id
Submit(status, parses, id) ==
    /\ pc = "submit"
    /\ events' = events \cup {"submit_request"} \cup
                  (IF StatusOk(status) /\ parses THEN {} ELSE {"submit_failed"})
    /\ last_updated_datetime' = {Datetime(now)}
    /\ last_updated_file' = LastUpdatedFileAfterSubmit(last_updated_file, now)
    /\ IF StatusOk(status) /\ parses
       THEN pc' = "download_export" /\ export_id' = id /\ error' = error
       ELSE Raise("LINZError") /\ export_id' = export_id
    /\ UNCHANGED <<action, purge, now, start_time, attempt,
                   full_download_file, changeset_file, changeset_fc,
                   layer_feature_class, json_files,
                   zip_files, changeset_tables, report, purged, poll_json_response,
                   config>>

\* ------------------------------------------------- download_export

\* start_time = time.time(); attempt = 0
BeginDownloadExport ==
    /\ pc = "download_export"
    /\ start_time' = now
    /\ attempt' = 0
    /\ pc' = "polling"
    /\ UNCHANGED <<action, purge, now, export_id, full_download_file,
                   changeset_file, changeset_fc, layer_feature_class,
                   last_updated_file, last_updated_datetime, json_files,
                   zip_files, changeset_tables, error, events, report,
                   purged, poll_json_response,
                   config>>

\* what a reply to a status request is, whatever is done with it
PollClass(status, body) ==
    IF ~StatusOk(status) THEN "poll_non2xx"
    ELSE IF ~body.parses THEN "poll_unparseable"
    ELSE IF body.state = "complete" THEN "poll_complete"
    ELSE "poll_incomplete"

\* how the body of the loop ends: break, the TypeError of float(None), or the
\* sleep before the next test of the loop condition
PollOutcome(status, body) ==
    IF ~StatusOk(status) THEN "break"
    ELSE IF ~body.parses THEN "break"
    ELSE IF body.progress = "absent" THEN "TypeError"
    ELSE IF body.progress = "empty" THEN "break"
    ELSE IF body.state = "complete" THEN "break"
    ELSE "sleep"

SleepSkipped(t, seconds) == t

\* time.sleep(seconds) begun at instant t returns at t + seconds
Sleep(t, seconds) == t + seconds

\* one pass of the while loop: the GET to status_url and what follows it
Poll(status, body) ==
    /\ pc = "polling"
    /\ now - start_time < MaxPollingTime
    /\ attempt' = attempt + 1
    /\ events' = events \cup {"poll_request", PollClass(status, body)}
    /\ poll_json_response' = IF StatusOk(status) /\ body.parses
                             THEN body ELSE poll_json_response
    /\ LET outcome == PollOutcome(status, body)
       IN  \/ /\ outcome = "break"
              /\ pc' = "download"
              /\ UNCHANGED <<now, error>>
           \/ /\ outcome = "TypeError"
              /\ Raise("TypeError")
              /\ UNCHANGED now
           \/ /\ outcome = "sleep"
              /\ Sleep(now, PollInterval) <= MaxTime
              /\ now' = Sleep(now, PollInterval)
              /\ pc' = "polling"
              /\ UNCHANGED error
    /\ UNCHANGED <<action, purge, export_id, start_time, full_download_file,
                   changeset_file, changeset_fc, layer_feature_class,
                   last_updated_file, last_updated_datetime, json_files,
                   zip_files, changeset_tables, report, purged, config>>

\* the job identifier the message of the time-out carries: the message is
\* not an f-string, "{self.export_id}" stays as written
TimeoutMessageId(id) == None

\* the else branch of the while loop: max_polling_time has passed
PollTimeout ==
    /\ pc = "polling"
    /\ now - start_time >= MaxPollingTime
    /\ events' = events \cup {"poll_timeout"}
    /\ pc' = "raised"
    /\ error' = [type |-> "LINZError", export_id |-> TimeoutMessageId(export_id)]
    /\ UNCHANGED <<action, purge, now, export_id, start_time, attempt,
                   full_download_file, changeset_file, changeset_fc,
                   layer_feature_class, last_updated_file,
                   last_updated_datetime, json_files, zip_files,
                   changeset_tables, report, purged, poll_json_response,
                   config>>

DownloadExceptionIgnored(status) == None

\* the exception the reply to the download request makes download_export
\* raise, or None
DownloadException(status) == IF StatusOk(status) THEN None ELSE "LINZError"

AfterDownloadProcesses(a) == "copy_fc_to_staging"

\* what follows download_export: main() calls it alone for DOWNLOADEXPORT,
\* downloadExport() calls processFullDownload after it
AfterDownload(a) ==
    IF a = "DOWNLOADEXPORT" THEN "done" ELSE "copy_fc_to_staging"

\* the GET to download_url, streamed to full/layer_<id>_<time>.zip
Download(status, zip) ==
    /\ pc = "download"
    /\ poll_json_response' = NoPollJson
    /\ events' = events \cup {"download_request"} \cup
                  (IF StatusOk(status) THEN {} ELSE {"download_failed"})
    /\ IF DownloadException(status) = None
       THEN /\ full_download_file' = zip
            /\ zip_files' = zip_files \cup {now}
            /\ pc' = AfterDownload(action)
            /\ error' = error
       ELSE /\ Raise(DownloadException(status))
            /\ UNCHANGED <<full_download_file, zip_files>>
    /\ UNCHANGED <<action, purge, now, export_id, start_time, attempt,
                   changeset_file, changeset_fc, layer_feature_class,
                   last_updated_file, last_updated_datetime, json_files,
                   changeset_tables, report, purged, config>>

\* ------------------------------------------------- processFullDownload

\* copy_fc_to_staging(): the feature class of the archive replaces the mirror
\* and its identifier column is converted
CopyFcToStaging ==
    /\ pc = "copy_fc_to_staging"
    /\ events' = events \cup {"copy_fc_to_staging"} \cup
                  (IF full_download_file.exists /\ full_download_file.valid
                   THEN {} ELSE {"archive_failed"})
    /\ IF ~full_download_file.exists
       THEN Raise("FileNotFoundError") /\ UNCHANGED layer_feature_class
       ELSE IF ~full_download_file.valid
       THEN Raise("BadZipFile") /\ UNCHANGED layer_feature_class
       ELSE /\ layer_feature_class' = ConvertIdFieldToInteger(
                   [exists |-> TRUE, fields |-> target_fields,
                    id_type |-> full_download_file.id_type,
                    id_idx2 |-> FALSE, rows |-> full_download_file.rows])
            /\ pc' = "full_extent"
            /\ error' = error
    /\ UNCHANGED <<action, purge, now, export_id, start_time, attempt,
                   full_download_file, changeset_file, changeset_fc,
                   last_updated_file, last_updated_datetime, json_files,
                   zip_files, changeset_tables, report, purged, poll_json_response,
                   config>>

\* ------------------------------------------------- post filters

\* SelectLayerByLocation with INTERSECT and INVERT: the rows that do not
\* intersect the extent record
NotIntersecting(rows) == {r \in rows : r.shape # "in"}

SelectedOrAllRows(rows, selected) == IF selected = {} THEN rows ELSE selected

\* DeleteRows on a layer with a selection: the rows it deletes
SelectedRows(rows, selected) == selected

\* deleteFeaturesNotIntersectingExtent(fc): nothing without an extent record
DeleteFeaturesNotIntersectingExtent ==
    /\ \/ /\ pc = "full_extent"
          /\ pc' = "full_sql"
          /\ layer_feature_class' =
                IF extent_geometry = None THEN layer_feature_class
                ELSE LET rows == DOMAIN layer_feature_class.rows
                         gone == SelectedRows(rows, NotIntersecting(rows))
                     IN  [layer_feature_class EXCEPT !.rows =
                            KeepRows(@, rows \ gone)]
          /\ UNCHANGED changeset_fc
       \/ /\ pc = "cs_extent"
          /\ pc' = "cs_sql"
          /\ changeset_fc' =
                IF extent_geometry = None THEN changeset_fc
                ELSE LET rows == Range(changeset_fc.rows)
                         gone == SelectedRows(rows, NotIntersecting(rows))
                     IN  [changeset_fc EXCEPT !.rows =
                            SelectSeq(@, LAMBDA r : r \notin gone)]
          /\ UNCHANGED layer_feature_class
    /\ events' = events \cup {"filter_extent"}
    /\ UNCHANGED <<action, purge, now, export_id, start_time, attempt,
                   full_download_file, changeset_file, last_updated_file,
                   last_updated_datetime, json_files, zip_files,
                   changeset_tables, error, report, purged, poll_json_response,
                   config>>

\* deleteFeaturesNotMatchingSQL(fc): nothing without a configured sql_filter;
\* with one, where_clause=sql_filter names a variable that does not exist
DeleteFeaturesNotMatchingSQL ==
    /\ pc \in {"full_sql", "cs_sql"}
    /\ events' = events \cup {"filter_sql"}
    /\ IF sql_filter = None
       THEN /\ pc' = IF pc = "full_sql"
                     THEN "update_last_updated_file" ELSE "applyChangeset"
            /\ error' = error
       ELSE Raise("NameError")
    /\ UNCHANGED <<action, purge, now, export_id, start_time, attempt,
                   full_download_file, changeset_file, changeset_fc,
                   layer_feature_class, last_updated_file,
                   last_updated_datetime, json_files, zip_files,
                   changeset_tables, report, purged, poll_json_response,
                   config>>

\* ------------------------------------------------- changesets

\* a last_updated.json without a last_updated value: the key is absent, or
\* its value is null or empty; iso is not read
NoLastUpdated == [iso |-> 0, suffix |-> None]

WatermarkMissingWithoutFile(file) == file = {}

\* no changes_from: last_updated.json is not a file, or it holds no
\* last_updated value
WatermarkMissing(file) == file = {} \/ \E w \in file : w.suffix # "Z"

\* downloadChangeSet(): the window runs from the stored last_updated to now;
\* the reply is written to changesets/layer_<id>_<time>.json whatever its
\* status, then read for its timeStamp
DownloadChangeSet(status, json) ==
    /\ pc = "downloadChangeSet"
    /\ IF WatermarkMissing(last_updated_file)
       THEN /\ Raise("LINZError")
            /\ UNCHANGED <<changeset_file, json_files, last_updated_datetime,
                           events>>
       ELSE /\ events' = events \cup {"feed_request"} \cup
                         (IF StatusOk(status) THEN {} ELSE {"feed_non2xx"})
            /\ changeset_file' = json
            /\ json_files' = json_files \cup {now}
            /\ IF ~json.parses
               THEN Raise("LINZError") /\ UNCHANGED last_updated_datetime
               ELSE /\ last_updated_datetime' = json.timeStamp
                    /\ pc' = "processChangeSet"
                    /\ error' = error
    /\ UNCHANGED <<action, purge, now, export_id, start_time, attempt,
                   full_download_file, changeset_fc, layer_feature_class,
                   last_updated_file, zip_files, changeset_tables, report,
                   purged, poll_json_response,
                   config>>

\* number_of_changes: 0 without the file, else its numberReturned (0 when
\* absent); a file that is not json raises JSONDecodeError
NumberOfChanges(json) == IF ~json.exists THEN 0 ELSE json.numberReturned

\* processChangeSet(): the test of number_of_changes
ProcessChangeSet ==
    /\ pc = "processChangeSet"
    /\ IF changeset_file.exists /\ ~changeset_file.parses
       THEN Raise("JSONDecodeError")
       ELSE /\ pc' = IF NumberOfChanges(changeset_file) > 0
                     THEN "convertJsonToFGB"
                     ELSE IF purge THEN "purgeChangesets" ELSE "done"
            /\ error' = error
    /\ UNCHANGED <<action, purge, now, export_id, start_time, attempt,
                   full_download_file, changeset_file, changeset_fc,
                   layer_feature_class, last_updated_file,
                   last_updated_datetime, json_files, zip_files,
                   changeset_tables, events, report, purged, poll_json_response,
                   config>>

\* convertJsonToFGB(): JSONToFeatures makes the identifier a Double column
\* of the table layer_<id>_changeset_<suffix of the file>, replacing a table
\* of that name (overwriteOutput); then the column is converted
ConvertJsonToFGB ==
    /\ pc = "convertJsonToFGB"
    /\ changeset_fc' = ConvertIdFieldToInteger(
          [exists |-> TRUE, name |-> changeset_file.name,
           id_type |-> "Double", id_idx2 |-> FALSE,
           rows |-> changeset_file.features])
    /\ changeset_tables' =
          {t \in changeset_tables : t.name # changeset_file.name}
          \cup {[name |-> changeset_file.name, created |-> now]}
    /\ events' = events \cup {"convertJsonToFGB"}
    /\ pc' = "cs_extent"
    /\ UNCHANGED <<action, purge, now, export_id, start_time, attempt,
                   full_download_file, changeset_file, layer_feature_class,
                   last_updated_file, last_updated_datetime, json_files,
                   zip_files, error, report, purged, poll_json_response,
                   config>>

\* applyChangeset(); GetCount raises when there is no mirror table
ApplyChangeset ==
    /\ pc = "applyChangeset"
    /\ events' = events \cup {"applyChangeset"}
    /\ IF ~layer_feature_class.exists
       THEN Raise("ExecuteError") /\ UNCHANGED <<layer_feature_class, report>>
       ELSE LET res == ApplyChangesetResult(layer_feature_class, changeset_fc)
            IN  /\ layer_feature_class' =
                      [layer_feature_class EXCEPT !.rows = res.rows]
                /\ report' = ReportOf(res)
                /\ IF res.raised THEN Raise("ValueError")
                   ELSE pc' = "update_last_updated_file" /\ error' = error
    /\ UNCHANGED <<action, purge, now, export_id, start_time, attempt,
                   full_download_file, changeset_file, changeset_fc,
                   last_updated_file, last_updated_datetime, json_files,
                   zip_files, changeset_tables, purged, poll_json_response,
                   config>>

\* ------------------------------------------------- update_last_updated_file

UpdateTimeFromCandidate(update_time, utcnow) ==
    IF last_updated_datetime # {}
    THEN IsoZ((CHOOSE d \in last_updated_datetime : TRUE).t)
    ELSE IsoZ(utcnow)

\* the string written for the argument update_time ({} for None): the
\* argument when it is a datetime, the present instant otherwise
UpdateTime(update_time, utcnow) ==
    IF update_time # {} /\ \A d \in update_time : d.kind = "datetime"
    THEN IsoZ((CHOOSE d \in update_time : TRUE).t)
    ELSE IsoZ(utcnow)

\* update_last_updated_file(), called without an argument by
\* processFullDownload and processChangeSet
UpdateLastUpdatedFile ==
    /\ pc = "update_last_updated_file"
    /\ last_updated_file' = {UpdateTime({}, now)}
    /\ events' = events \cup {"update_last_updated_file"}
    /\ pc' = IF purge THEN "purgeChangesets" ELSE "done"
    /\ UNCHANGED <<action, purge, now, export_id, start_time, attempt,
                   full_download_file, changeset_file, changeset_fc,
                   layer_feature_class, last_updated_datetime, json_files,
                   zip_files, changeset_tables, error, report, purged, poll_json_response,
                   config>>

\* ------------------------------------------------- purgeChangesets

\* the n most recent of the files S, named by their creation time
KeepLatest(S, n) == {x \in S : Cardinality({y \in S : y > x}) < n}

\* json_files[retain:] and zip_files[retain:] of the lists sorted by creation
\* time, the most recent first
FilesToDelete(S, n) == S \ KeepLatest(S, n)

\* the last n of the tables S in the order of their names
KeepLastNames(S, n) == {x \in S : Cardinality({y \in S : y.name > x.name}) < n}

\* changeset_feature_classes[:-retain] of the list sorted by name; [:-0] is
\* the empty list
TablesToDelete(S, n) == IF n = 0 THEN {} ELSE S \ KeepLastNames(S, n)

\* the artifacts whose deletion raises: at most one of each kind, among those
\* selected for deletion
AtMostOne(S) == {{}} \cup {{x} : x \in S}
Locks(n) ==
    [json : AtMostOne(FilesToDelete(json_files, n)),
     zip : AtMostOne(FilesToDelete(zip_files, n)),
     tables : AtMostOne(TablesToDelete(changeset_tables, n))]

\* a changeset table as ListFeatureClasses names it
AsListed(t) ==
    [kind |-> "layer_changeset", name |-> t.name, created |-> t.created]

\* arcpy.ListFeatureClasses() on staging.gdb: the extent table when an extent
\* is configured, the mirror table layer_<id> when there is one, and the
\* changeset tables layer_<id>_changeset_<suffix>.  name is the place of the
\* table's name in the sorted list: "extent" sorts before "layer_<id>", which
\* sorts before every "layer_<id>_changeset_<suffix>"
ListFeatureClasses ==
    (IF extent_geometry # None
     THEN {[kind |-> "extent", name |-> 0 - 2, created |-> 0]} ELSE {})
    \cup (IF layer_feature_class.exists
          THEN {[kind |-> "layer", name |-> 0 - 1, created |-> 0]} ELSE {})
    \cup {AsListed(t) : t \in changeset_tables}

ContainsAnything(fc) == TRUE

\* "changeset" in fc
ContainsChangeset(fc) == fc.kind = "layer_changeset"

\* changeset_feature_classes
ChangesetFeatureClasses == {fc \in ListFeatureClasses : ContainsChangeset(fc)}

UnlinkUntilFailure(selected, locked) ==
    IF selected \cap locked = {} THEN selected ELSE {}

\* the loop "for file in files_to_delete: try: unlink except: warning": the
\* artifacts it deletes
Unlink(selected, locked) == selected \ locked

\* purgeChangesets(): nothing when retain_after_purge is 0
PurgeChangesets(lock) ==
    /\ pc = "purgeChangesets"
    /\ purged' = [json |-> json_files, zip |-> zip_files,
                  tables |-> changeset_tables, locked |-> lock]
    /\ IF retain_after_purge = 0
       THEN /\ events' = events \cup {"purgeChangesets"}
            /\ UNCHANGED <<json_files, zip_files, changeset_tables,
                           layer_feature_class, extent_geometry>>
       ELSE /\ events' = events \cup {"purgeChangesets"} \cup
                  (IF lock = NoLock THEN {} ELSE {"purge_warning"})
            /\ json_files' = json_files \
                 Unlink(FilesToDelete(json_files, retain_after_purge),
                        lock.json)
            /\ zip_files' = zip_files \
                 Unlink(FilesToDelete(zip_files, retain_after_purge),
                        lock.zip)
            /\ LET deleted ==
                     Unlink(TablesToDelete(ChangesetFeatureClasses,
                                           retain_after_purge),
                            {AsListed(t) : t \in lock.tables})
               IN  /\ changeset_tables' =
                         {t \in changeset_tables : AsListed(t) \notin deleted}
                   /\ layer_feature_class' =
                         IF \E fc \in deleted : fc.kind = "layer"
                         THEN NoTable ELSE layer_feature_class
                   /\ extent_geometry' =
                         IF \E fc \in deleted : fc.kind = "extent"
                         THEN None ELSE extent_geometry
    /\ pc' = "done"
    /\ UNCHANGED <<action, purge, now, export_id, start_time, attempt,
                   full_download_file, changeset_file, changeset_fc,
                   last_updated_file, last_updated_datetime, error, report,
                   poll_json_response, sql_filter, runs, before, first_after,
                   applied, args, retain_after_purge, cql_filter, wfs_params,
                   passes>>

\* ------------------------------------------------- SpecPurge

\* the instants at which artifacts were created
ArtifactStamps == 0..MaxStamp

\* the changeset tables of a staging store: distinct names, created at
\* distinct instants.  A table made from a fetched changeset is named by the
\* instant of the fetch; one made by --localchangeset is named by the suffix
\* of the given file, whenever it is made
TableSets ==
    UNION {{{[name |-> n, created |-> f[n]] : n \in S} :
              f \in {g \in [S -> ArtifactStamps] :
                        \A a, b \in S : a # b => g[a] # g[b]}} :
           S \in SUBSET ArtifactStamps}

\* an invocation with --purge that has reached purgeChangesets
InitPurge ==
    /\ pc = "purgeChangesets"
    /\ action = "PROCESSJSONCHANGESET"
    /\ purge = TRUE
    /\ runs = 1
    /\ now = MaxStamp
    /\ export_id = None
    /\ start_time = 0
    /\ attempt = 0
    /\ full_download_file = NoArchive
    /\ changeset_file = NoJson
    /\ changeset_fc = NoChangesetFc
    /\ layer_feature_class =
          [exists |-> TRUE, fields |-> target_fields, id_type |-> "Integer",
           id_idx2 |-> TRUE, rows |-> SetToBag({Row(1, "a", "in")})]
    /\ last_updated_file = {IsoZ(0)}
    /\ last_updated_datetime = {}
    /\ extent_geometry = "polygon"
    /\ sql_filter = None
    /\ json_files \in SUBSET ArtifactStamps
    /\ zip_files \in SUBSET ArtifactStamps
    /\ changeset_tables \in TableSets
    /\ error = NoError
    /\ events = {}
    /\ report = NoReport
    /\ before = EmptyBag
    /\ first_after = EmptyBag
    /\ applied = 0
    /\ args = {"localchangeset"}
    /\ retain_after_purge \in 0..MaxRetain
    /\ cql_filter = None
    /\ wfs_params = NoParams
    /\ purged = NoPurge
    /\ passes = 0
    /\ poll_json_response = NoPollJson

NextPurge == \E lock \in Locks(retain_after_purge) : PurgeChangesets(lock)

SpecPurge == InitPurge /\ [][NextPurge]_vars

\* ------------------------------------------------- SpecFilter

\* tables to filter: at most one row for an identifier, inside or outside
\* the extent record
FilterMirrors ==
    {SetToBag({Row(i, f[i].val, f[i].shape) : i \in S}) :
        f \in [Ids -> [val : Vals, shape : Shapes]], S \in SUBSET Ids}
FilterChangesets ==
    SeqsUpTo({Change(i, "a", g, "INSERT") : i \in Ids, g \in Shapes}, MaxRecs)

\* processFullDownload or processChangeSet has reached the first filter
InitFilter ==
    /\ \/ /\ pc = "full_extent"
          /\ action = "PROCESSFULLDOWNLOAD"
          /\ args = {"localfull"}
          /\ layer_feature_class \in
                {[exists |-> TRUE, fields |-> target_fields,
                  id_type |-> "Integer", id_idx2 |-> TRUE,
                  rows |-> m] : m \in FilterMirrors}
          /\ changeset_fc = NoChangesetFc
          /\ changeset_tables = {}
       \/ /\ pc = "cs_extent"
          /\ action = "PROCESSJSONCHANGESET"
          /\ args = {"localchangeset"}
          /\ layer_feature_class = NoTable
          /\ changeset_fc \in
                {[exists |-> TRUE, name |-> 0, id_type |-> "Integer",
                  id_idx2 |-> TRUE, rows |-> c] : c \in FilterChangesets}
          /\ changeset_tables = {[name |-> 0, created |-> 0]}
    /\ purge = FALSE
    /\ runs = 1
    /\ now = 0
    /\ export_id = None
    /\ start_time = 0
    /\ attempt = 0
    /\ full_download_file = NoArchive
    /\ changeset_file = NoJson
    /\ last_updated_file = {}
    /\ last_updated_datetime = {}
    /\ extent_geometry \in {None, "polygon"}
    /\ sql_filter \in {None, "val = 'a'"}
    /\ json_files = {}
    /\ zip_files = {}
    /\ error = NoError
    /\ events = {}
    /\ report = NoReport
    /\ before = EmptyBag
    /\ first_after = EmptyBag
    /\ applied = 0
    /\ retain_after_purge = RetainAfterPurge
    /\ cql_filter = None
    /\ wfs_params = NoParams
    /\ purged = NoPurge
    /\ passes = 0
    /\ poll_json_response = NoPollJson

\* the two filters are called on the same table once more
FilterAgain ==
    /\ pc \in {"update_last_updated_file", "applyChangeset", "raised"}
    /\ passes < MaxPasses
    /\ passes' = passes + 1
    /\ pc' = IF action = "PROCESSFULLDOWNLOAD" THEN "full_extent"
             ELSE "cs_extent"
    /\ error' = NoError
    /\ UNCHANGED <<action, purge, runs, now, export_id, start_time, attempt,
                   full_download_file, changeset_file, changeset_fc,
                   layer_feature_class, last_updated_file,
                   last_updated_datetime, extent_geometry, sql_filter,
                   json_files, zip_files, changeset_tables, events, report,
                   before, first_after, applied, args, retain_after_purge,
                   cql_filter, wfs_params, purged,
                   poll_json_response>>

NextFilter ==
    \/ DeleteFeaturesNotIntersectingExtent
    \/ DeleteFeaturesNotMatchingSQL
    \/ FilterAgain

SpecFilter == InitFilter /\ [][NextFilter]_vars

\* ------------------------------------------------- SpecConvert

\* the types of the identifier column; None when the table has no such column
IdTypes == {"Double", "Float", "Integer", "SmallInteger", "String", None}

\* convertIdFieldToInteger is about to be called on a table
InitConvert ==
    /\ pc = "convertIdFieldToInteger"
    /\ action = "PROCESSFULLDOWNLOAD"
    /\ args = {"localfull"}
    /\ layer_feature_class \in
          {[exists |-> TRUE, fields |-> target_fields, id_type |-> t,
            id_idx2 |-> x, rows |-> m] :
              t \in IdTypes, x \in BOOLEAN, m \in Mirrors}
    /\ layer_feature_class.id_idx2 => layer_feature_class.id_type = "Integer"
    /\ changeset_fc = NoChangesetFc
    /\ changeset_tables = {}
    /\ purge = FALSE
    /\ runs = 1
    /\ now = 0
    /\ export_id = None
    /\ start_time = 0
    /\ attempt = 0
    /\ full_download_file = NoArchive
    /\ changeset_file = NoJson
    /\ last_updated_file = {}
    /\ last_updated_datetime = {}
    /\ extent_geometry = None
    /\ sql_filter = None
    /\ json_files = {}
    /\ zip_files = {}
    /\ error = NoError
    /\ events = {}
    /\ report = NoReport
    /\ before = EmptyBag
    /\ first_after = EmptyBag
    /\ applied = 0
    /\ retain_after_purge = RetainAfterPurge
    /\ cql_filter = None
    /\ wfs_params = NoParams
    /\ purged = NoPurge
    /\ passes = 0
    /\ poll_json_response = NoPollJson

\* convertIdFieldToInteger(self.layer_feature_class)
ConvertStep ==
    /\ pc = "convertIdFieldToInteger"
    /\ passes < MaxPasses
    /\ passes' = passes + 1
    /\ layer_feature_class' = ConvertIdFieldToInteger(layer_feature_class)
    /\ UNCHANGED <<pc, action, purge, runs, now, export_id, start_time,
                   attempt, full_download_file, changeset_file, changeset_fc,
                   last_updated_file, last_updated_datetime, extent_geometry,
                   sql_filter, json_files, zip_files, changeset_tables,
                   error, events, report, before, first_after, applied, args,
                   retain_after_purge, cql_filter, wfs_params, purged,
                   poll_json_response>>

NextConvert == ConvertStep

SpecConvert == InitConvert /\ [][NextConvert]_vars

\* ------------------------------------------------- SpecParams

\* geometryToBboxString: the extent of the geometry projected to EPSG:4326
GeometryToBboxString(geometry) == [extent |-> geometry, crs |-> "EPSG:4326"]

WfsParamsWithBoth(cql, geometry) ==
    [cql_filter |-> cql,
     bbox |-> IF geometry # None THEN {GeometryToBboxString(geometry)} ELSE {}]

\* wfs_params: the cql_filter and bbox entries of the dictionary; bbox is {}
\* for None.  The extent record is read only without a configured cql_filter
WfsParams(cql, geometry) ==
    [cql_filter |-> cql,
     bbox |-> IF cql = None /\ geometry # None
              THEN {GeometryToBboxString(geometry)} ELSE {}]

\* configured values of cql_filter: absent, empty, or a predicate
CqlFilters == {None, "", "val = 'a'", "val = 'b'", "id < 3"}
ExtentGeometries == {None, "polygon", "multipolygon", "envelope"}

\* an invocation is about to read wfs_params
InitParams ==
    /\ pc = "wfs_params"
    /\ action \in {"REQUESTDOWNLOAD", "REQUESTCHANGESET"}
    /\ args = IF action = "REQUESTDOWNLOAD" THEN {"download"}
              ELSE {"changeset"}
    /\ purge \in BOOLEAN
    /\ cql_filter \in CqlFilters
    /\ extent_geometry \in ExtentGeometries
    /\ layer_feature_class = NoTable
    /\ changeset_fc = NoChangesetFc
    /\ changeset_tables = {}
    /\ runs = 1
    /\ now = 0
    /\ export_id = None
    /\ start_time = 0
    /\ attempt = 0
    /\ full_download_file = NoArchive
    /\ changeset_file = NoJson
    /\ last_updated_file = {}
    /\ last_updated_datetime = {}
    /\ sql_filter = None
    /\ json_files = {}
    /\ zip_files = {}
    /\ error = NoError
    /\ events = {}
    /\ report = NoReport
    /\ before = EmptyBag
    /\ first_after = EmptyBag
    /\ applied = 0
    /\ retain_after_purge = RetainAfterPurge
    /\ wfs_params = NoParams
    /\ purged = NoPurge
    /\ passes = 0
    /\ poll_json_response = NoPollJson

\* params = self.wfs_params
BuildWfsParams ==
    /\ pc = "wfs_params"
    /\ wfs_params' = WfsParams(cql_filter, extent_geometry)
    /\ pc' = "done"
    /\ UNCHANGED <<action, purge, runs, now, export_id, start_time, attempt,
                   full_download_file, changeset_file, changeset_fc,
                   layer_feature_class, last_updated_file,
                   last_updated_datetime, extent_geometry, sql_filter,
                   json_files, zip_files, changeset_tables, error, events,
                   report, before, first_after, applied, args,
                   retain_after_purge, cql_filter, purged, passes,
                   poll_json_response>>

NextParams == BuildWfsParams

SpecParams == InitParams /\ [][NextParams]_vars

\* ------------------------------------------------- SpecFeed

\* an invocation with --changeset is about to call downloadChangeSet; there
\* is no last_updated.json, or one without a value, or one with a value
InitFeed ==
    /\ pc = "downloadChangeSet"
    /\ action = "REQUESTCHANGESET"
    /\ args = {"changeset"}
    /\ purge \in BOOLEAN
    /\ cql_filter = None
    /\ extent_geometry = None
    /\ layer_feature_class \in
          {NoTable} \cup
          {[exists |-> TRUE, fields |-> target_fields, id_type |-> "Integer",
            id_idx2 |-> TRUE, rows |-> m] : m \in Mirrors}
    /\ changeset_fc = NoChangesetFc
    /\ changeset_tables = {}
    /\ runs = 1
    /\ now \in 0..MaxTime
    /\ export_id = None
    /\ start_time = 0
    /\ attempt = 0
    /\ full_download_file = NoArchive
    /\ changeset_file = NoJson
    /\ \/ last_updated_file = {}
       \/ last_updated_file = {NoLastUpdated}
       \/ last_updated_file = {IsoZ(0)}
    /\ last_updated_datetime = {}
    /\ sql_filter = None
    /\ json_files = {}
    /\ zip_files = {}
    /\ error = NoError
    /\ events = {}
    /\ report = NoReport
    /\ before = EmptyBag
    /\ first_after = EmptyBag
    /\ applied = 0
    /\ retain_after_purge = RetainAfterPurge
    /\ wfs_params = NoParams
    /\ purged = NoPurge
    /\ passes = 0
    /\ poll_json_response = NoPollJson

NextFeed ==
    \E status \in StatusCodes, json \in JsonFiles(now, Stamps(now)) :
        DownloadChangeSet(status, json)

SpecFeed == InitFeed /\ [][NextFeed]_vars

\* ------------------------------------------------- Spec

Next ==
    \/ \E argv \in ArgSets, p \in BOOLEAN :
          \E zip \in LocalZips(ActionOf(argv)),
             json \in LocalJsons(ActionOf(argv)) :
             Start(argv, p, zip, json)
    \/ Prepare
    \/ Tick
    \/ \E status \in StatusCodes, body \in ValidateBodies :
          Validate(status, body)
    \/ \E status \in StatusCodes, parses \in BOOLEAN, id \in ExportIds :
          Submit(status, parses, id)
    \/ BeginDownloadExport
    \/ \E status \in StatusCodes, body \in PollBodies : Poll(status, body)
    \/ PollTimeout
    \/ \E status \in StatusCodes, zip \in Archives : Download(status, zip)
    \/ CopyFcToStaging
    \/ DeleteFeaturesNotIntersectingExtent
    \/ DeleteFeaturesNotMatchingSQL
    \/ \E status \in StatusCodes, json \in JsonFiles(now, Stamps(now)) :
          DownloadChangeSet(status, json)
    \/ ProcessChangeSet
    \/ ConvertJsonToFGB
    \/ ApplyChangeset
    \/ UpdateLastUpdatedFile
    \/ \E lock \in Locks(retain_after_purge) : PurgeChangesets(lock)

Spec == Init /\ [][Next]_vars

\* ------------------------------------------------- claims on applyChangeset

\* the records of the applied changeset table that carry tag t, and their ids
Tagged(t) == SelectChange(changeset_fc.rows, t)
TagIds(t) == {Tagged(t)[k].id : k \in DOMAIN Tagged(t)}

\* a changeset in the sense of the data model: every tag is one of the three
\* values INSERT, UPDATE, DELETE
WellTagged ==
    \A k \in DOMAIN changeset_fc.rows :
        changeset_fc.rows[k]["__change__"] \in {"INSERT", "UPDATE", "DELETE"}

DisjointIdSets ==
    /\ TagIds("DELETE") \cap TagIds("INSERT") = {}
    /\ TagIds("DELETE") \cap TagIds("UPDATE") = {}
    /\ TagIds("INSERT") \cap TagIds("UPDATE") = {}

\* the rows of bag B whose identifier is i
RowsWithId(B, i) == KeepRows(B, {r \in DOMAIN B : r.id = i})

\* applyChangeset has just run to its end on a changeset with disjoint id sets
Reconciled == applied > 0 /\ error = NoError /\ WellTagged /\ DisjointIdSets

\* every DELETE record names one row of the mirror, and no two name the same
DeletesMatchOnce ==
    /\ \A i \in TagIds("DELETE") : BagCardinality(RowsWithId(before, i)) = 1
    /\ Cardinality(TagIds("DELETE")) = Len(Tagged("DELETE"))

RowCountConserved ==
    BagCardinality(layer_feature_class.rows) + Len(Tagged("DELETE")) =
        BagCardinality(before) + Len(Tagged("INSERT"))

\* C1 as stated: after applyChangeset on a changeset with pairwise disjoint
\* DELETE, INSERT and UPDATE identifier sets, the row count of the mirror is
\* the count before, minus the DELETE records, plus the INSERT records.
C1_Original == Reconciled => RowCountConserved

\* C1 as amended: the same, for changesets in which every DELETE record names
\* exactly one row of the mirror and no two DELETE records share an identifier.
C1_RowCount == Reconciled /\ DeletesMatchOnce => RowCountConserved

\* a DELETE that removed a row and an INSERT, applied together
C1_Witness ==
    /\ Reconciled /\ DeletesMatchOnce
    /\ Len(Tagged("DELETE")) = 1
    /\ Len(Tagged("INSERT")) = 1
    /\ BagCardinality(before) = 2
    /\ BagCardinality(layer_feature_class.rows) = 2

\* C2: when moreover every DELETE id is in the mirror and no INSERT id is,
\* the mirror after applyChangeset holds, for each identifier: nothing if it
\* is a DELETE id; the INSERT rows if it is an INSERT id; the rows it held
\* before otherwise, each carrying the values of an UPDATE record with that
\* identifier if there is one; and the logged counts are the numbers of
\* records carrying each tag.
C2_Result ==
    Reconciled
    /\ (\A i \in TagIds("DELETE") : RowsWithId(before, i) # EmptyBag)
    /\ (\A i \in TagIds("INSERT") : RowsWithId(before, i) = EmptyBag)
    => /\ \A i \in Ids :
            LET after_i == RowsWithId(layer_feature_class.rows, i)
                before_i == RowsWithId(before, i)
                ins == SelectSeq(Tagged("INSERT"), LAMBDA r : r.id = i)
                upd == SelectSeq(Tagged("UPDATE"), LAMBDA r : r.id = i)
            IN  IF i \in TagIds("DELETE") THEN after_i = EmptyBag
                ELSE IF i \in TagIds("INSERT")
                THEN after_i = BagOfSeq([k \in DOMAIN ins |->
                                   [id |-> i, val |-> ins[k].val,
                                    shape |-> ins[k].shape]])
                ELSE IF i \in TagIds("UPDATE")
                THEN /\ BagCardinality(after_i) = BagCardinality(before_i)
                     /\ \A r \in BagToSet(after_i) : \E k \in DOMAIN upd :
                           r = [id |-> i, val |-> upd[k].val,
                                shape |-> upd[k].shape]
                ELSE after_i = before_i
       /\ report.count_inserts = Len(Tagged("INSERT"))
       /\ report.count_updates = Len(Tagged("UPDATE"))
       /\ report.count_deletes = Len(Tagged("DELETE"))

\* the scenario of the specification: {1:a, 2:b} with INSERT 3 and DELETE 1
C2_Witness ==
    /\ applied = 1
    /\ before = SetToBag({[id |-> 1, val |-> "a", shape |-> "in"],
                          [id |-> 2, val |-> "b", shape |-> "in"]})
    /\ changeset_fc.rows =
         <<[id |-> 3, val |-> "b", shape |-> "in", __change__ |-> "INSERT"],
           [id |-> 1, val |-> "a", shape |-> "in", __change__ |-> "DELETE"]>>
    /\ layer_feature_class.rows =
         SetToBag({[id |-> 2, val |-> "b", shape |-> "in"],
                   [id |-> 3, val |-> "b", shape |-> "in"]})
    /\ report.count_inserts = 1
    /\ report.count_updates = 0
    /\ report.count_deletes = 1

\* C3: applying the same changeset table a second time leaves the rows of the
\* mirror, and so their number, as the first application left them.
C3_Idempotent ==
    applied = 2 /\ error = NoError /\ WellTagged
    => layer_feature_class.rows = first_after

\* ------------------------------------------------- claims on invocations

\* the instant of the stored last_updated
WatermarkInstant(file) == (CHOOSE w \in file : TRUE).iso

\* C4: whenever a run replaces a stored last_updated, the new value is not
\* earlier than the one it replaces.
C4_WatermarkMonotonic ==
    [][(last_updated_file # {} /\ last_updated_file' # {})
         => WatermarkInstant(last_updated_file') >=
                WatermarkInstant(last_updated_file)]_vars

\* a changeset run has written last_updated; it started from the value an
\* earlier run had written
C4_Witness ==
    /\ pc = "done"
    /\ action = "REQUESTCHANGESET"
    /\ "update_last_updated_file" \in events
    /\ last_updated_file # {}

\* what can fail before the watermark is written, recorded from the replies
\* and the files themselves
FailureEvents ==
    {"validate_non2xx", "validate_unparseable", "validate_invalid",
     "submit_failed", "poll_non2xx", "poll_unparseable", "poll_timeout",
     "download_failed", "archive_failed"}

\* C5: update_last_updated_file is reached in an invocation only if nothing
\* before it failed, and only after the steps that change the mirror: the
\* copy and the two filters of a full refresh, applyChangeset of a changeset.
C5_WatermarkOnlyAfterSuccess ==
    "update_last_updated_file" \in events
    => /\ events \cap FailureEvents = {}
       /\ error = NoError
       /\ \/ {"copy_fc_to_staging", "filter_extent", "filter_sql"}
                \subseteq events
          \/ "applyChangeset" \in events

\* C6: a changeset run whose file reports numberReturned = 0 creates no
\* changeset table, does not touch the mirror, and ends with the reported
\* timeStamp stored as last_updated.
C6_EmptyChangesetAdvancesWatermark ==
    /\ pc = "done"
    /\ action = "REQUESTCHANGESET"
    /\ changeset_file.parses
    /\ changeset_file.numberReturned = 0
    /\ changeset_file.timeStamp # {}
    => /\ events \cap {"convertJsonToFGB", "applyChangeset"} = {}
       /\ ~changeset_fc.exists
       /\ last_updated_file =
             {IsoZ((CHOOSE d \in changeset_file.timeStamp : TRUE).t)}

\* C7: when max_polling_time passes without a complete state, the invocation
\* does not end with an exception and its outcome carries the export id.
C7_TimeoutReturnsJobId ==
    "poll_timeout" \in events
    => pc # "raised" /\ error.export_id = export_id

\* C8: the download is requested only after a status reply with state
\* complete.
C8_DownloadOnlyAfterComplete ==
    "download_request" \in events => "poll_complete" \in events

\* C9: after a status reply that is not json, the invocation makes no
\* download request, loads no archive and writes no watermark.
C9_UnparseablePollAborts ==
    "poll_unparseable" \in events
    => events \cap {"download_request", "copy_fc_to_staging",
                    "update_last_updated_file"} = {}

\* C10: after a validation reply with a status other than 200 and 201, a body
\* that is not json, or an item that is not valid, the invocation sends no
\* submit request, has no export id and ends with an exception.
C10_NoSubmitAfterFailedValidation ==
    events \cap {"validate_non2xx", "validate_unparseable",
                 "validate_invalid"} # {}
    => /\ "submit_request" \notin events
       /\ export_id = None
       /\ pc = "raised"
       /\ error # NoError

\* the validation reported an item that is not valid
C10_Witness ==
    /\ "validate_invalid" \in events
    /\ pc = "raised"
    /\ error.type = "NameError"

\* ------------------------------------------------- claims on purgeChangesets

\* purgeChangesets has run in this invocation
Purged == pc = "done" /\ "purgeChangesets" \in events

\* the n most recently created of the files S and of the tables S
MostRecentFiles(S, n) == {x \in S : Cardinality({y \in S : y > x}) < n}
MostRecentTables(S, n) ==
    {x \in S : Cardinality({y \in S : y.created > x.created}) < n}

\* C11: with a retention count N >= 1 and no deletion failing, a kind of
\* artifact that had more than N members has, after purgeChangesets, exactly
\* its N most recently created members; for the json files, the zip files and
\* the changeset tables alike.
C11_Retention ==
    (Purged /\ retain_after_purge >= 1 /\ purged.locked = NoLock)
    => LET N == retain_after_purge
       IN  /\ Cardinality(purged.json) > N
                => /\ json_files = MostRecentFiles(purged.json, N)
                   /\ Cardinality(json_files) = N
           /\ Cardinality(purged.zip) > N
                => /\ zip_files = MostRecentFiles(purged.zip, N)
                   /\ Cardinality(zip_files) = N
           /\ Cardinality(purged.tables) > N
                => /\ changeset_tables = MostRecentTables(purged.tables, N)
                   /\ Cardinality(changeset_tables) = N

\* C12: purgeChangesets with retain_after_purge = 0 leaves no json file, no
\* zip file and no changeset table.
C12_RetainZeroKeepsNothing ==
    (Purged /\ purge /\ retain_after_purge = 0)
    => json_files = {} /\ zip_files = {} /\ changeset_tables = {}

\* C13: purgeChangesets ends without an exception whatever deletion fails; it
\* logs a warning for a deletion that fails, and of each kind exactly the
\* artifacts selected for deletion whose deletion did not fail are gone.
C13_BestEffort ==
    (Purged /\ retain_after_purge >= 1)
    => LET N == retain_after_purge
       IN  /\ error = NoError
           /\ purged.locked # NoLock => "purge_warning" \in events
           /\ json_files = purged.json \
                 (FilesToDelete(purged.json, N) \ purged.locked.json)
           /\ zip_files = purged.zip \
                 (FilesToDelete(purged.zip, N) \ purged.locked.zip)
           /\ changeset_tables = purged.tables \
                 (TablesToDelete(purged.tables, N) \ purged.locked.tables)

\* the deletion of one json file and of one table failed; another json file,
\* a zip file and another table were deleted all the same
C13_Witness ==
    /\ Purged
    /\ purged.locked.json # {}
    /\ purged.locked.tables # {}
    /\ purged.locked.json \subseteq json_files
    /\ purged.json \ json_files # {}
    /\ purged.zip \ zip_files # {}
    /\ purged.tables \ changeset_tables # {}

\* ------------------------------------------------- claims on the filters

C15_IntegerNoOp ==
    [][(pc = "convertIdFieldToInteger" /\
        layer_feature_class.id_type = "Integer")
         => /\ layer_feature_class'.rows = layer_feature_class.rows
            /\ layer_feature_class'.id_type = "Integer"
            /\ layer_feature_class'.id_idx2
            /\ passes >= 1 => layer_feature_class' = layer_feature_class]_vars

\* the conversion has run twice on a table with rows and an Integer column
C15_Witness ==
    /\ pc = "convertIdFieldToInteger"
    /\ passes = 2
    /\ layer_feature_class.id_type = "Integer"
    /\ layer_feature_class.id_idx2
    /\ layer_feature_class.rows # EmptyBag

\* ------------------------------------------------- claims on wfs_params

\* a parameter that is sent with a value
NonEmpty(value) == value \notin {None, ""}

\* C17: in the parameters wfs_params returns, the bbox and the cql_filter are
\* never both non-empty, whatever cql_filter is configured and whether or not
\* there is an extent record.
C17_BboxXorCql ==
    ~(NonEmpty(wfs_params.cql_filter) /\ wfs_params.bbox # {})

\* parameters built with a configured cql_filter and an extent record
C17_Witness ==
    /\ pc = "done"
    /\ NonEmpty(cql_filter)
    /\ extent_geometry # None
    /\ wfs_params.cql_filter = cql_filter
    /\ wfs_params.bbox = {}

\* ------------------------------------------------- claims on the command line

\* C16: an invocation with no action selector, or with two or more, ends as
\* a usage error before any request is sent and before anything is created
\* or changed.
C16_ExactlyOneSelector ==
    (runs > 0 /\ Cardinality(args) # 1) => (pc = "raised" /\ events = {})

\* ------------------------------------------------- claims on the row count

\* C18: when applyChangeset finds a final count other than the expected one
\* it warns and completes, and the watermark is written in that invocation.
C18_MismatchNotFatal ==
    ("applyChangeset" \in events /\ report.warned)
        => /\ error = NoError
           /\ \/ pc = "update_last_updated_file"
              \/ "update_last_updated_file" \in events

\* an invocation that warned about the count has written the watermark
C18_Witness ==
    /\ pc = "done"
    /\ report.warned
    /\ report.count_target + report.count_inserts
          # report.final_total + report.count_deletes
    /\ "update_last_updated_file" \in events
    /\ last_updated_file # {}

\* ------------------------------------------------- claims on the tags

\* the identifiers a changeset inserts
InsertIds(records) ==
    {records[k].id : k \in {j \in DOMAIN records :
                              records[j]["__change__"] = "INSERT"}}

\* C19: after a changeset is applied, there is no mirror row for an
\* identifier that a record of the changeset tags DELETE in any letter case,
\* unless the changeset also inserts that identifier.
C19_DeleteAnyCase ==
    (applied = 1 /\ error = NoError)
        => \A i \in DeleteIds(changeset_fc.rows) \ InsertIds(changeset_fc.rows) :
              \A r \in DOMAIN layer_feature_class.rows : r.id # i

\* ------------------------------------------------- claims on the feed

\* C20: after a non-2xx reply of the incremental feed the invocation has
\* raised; the reply is not converted or applied and no watermark is written
\* for it, and the file written for it is still there.
C20_Non2xxAborts ==
    "feed_non2xx" \in events
        => /\ pc = "raised"
           /\ error # NoError
           /\ changeset_file.exists
           /\ json_files # {}

\* ------------------------------------------------- claims on polling

\* C21: after a status reply whose progress is empty or missing nothing has
\* been raised, and the loop goes on as for a numeric progress: to the
\* download when the state is complete, to the next attempt otherwise.
C21_EmptyProgressIsZero ==
    (poll_json_response.parses /\
     poll_json_response.progress \in {"empty", "absent"})
        => /\ error = NoError
           /\ pc = IF poll_json_response.state = "complete"
                   THEN "download" ELSE "polling"

\* ------------------------------------------------- claims on the submission

\* C22: no step of initiate_export changes last_updated.json, whether it
\* succeeds or raises; the step that sends the export request keeps the
\* instant of the request in last_updated_datetime.
C22_SubmitKeepsCandidateInMemory ==
    [][(pc \in {"validate", "submit"}
          => last_updated_file' = last_updated_file)
       /\ ((pc = "submit" /\ pc' # "submit")
          => last_updated_datetime' = {Datetime(now)})]_vars

\* an export was submitted at instant 1 while last_updated.json holds 0
C22_Witness ==
    /\ pc = "download_export"
    /\ "submit_request" \in events
    /\ last_updated_file = {IsoZ(0)}
    /\ last_updated_datetime = {Datetime(1)}

\* ------------------------------------------------- claims on the order

\* the identifiers with a record tagged exactly DELETE and one tagged INSERT
DeletedAndInserted(records) ==
    {i \in InsertIds(records) :
        \E k \in DOMAIN records :
            records[k].id = i /\ records[k]["__change__"] = "DELETE"}

\* C23: deletes are applied before inserts and inserts before updates: after
\* applyChangeset the mirror has a row for every identifier that the
\* changeset both deletes and inserts, and without an UPDATE record for the
\* identifier it is a row as an INSERT record gives it.
C23_DeleteInsertUpdateOrder ==
    (applied >= 1 /\ error = NoError)
        => \A i \in DeletedAndInserted(changeset_fc.rows) :
              \E r \in DOMAIN layer_feature_class.rows :
                 /\ r.id = i
                 /\ i \notin DOMAIN UpdatesDict(changeset_fc.rows)
                      => \E k \in DOMAIN changeset_fc.rows :
                            /\ changeset_fc.rows[k]["__change__"] = "INSERT"
                            /\ r = AppendRow(changeset_fc.rows[k])

\* a changeset that deletes and inserts identifier 1 was applied to a mirror
\* that held identifier 1 with another value: the inserted row is there, alone
C23_Witness ==
    /\ applied = 1
    /\ error = NoError
    /\ 1 \in DeletedAndInserted(changeset_fc.rows)
    /\ BagIn(Row(1, "a", "in"), before)
    /\ layer_feature_class.rows = SetToBag({Row(1, "b", "in")})

\* ------------------------------------------------- claims on processUpdates

\* C24: after a changeset of UPDATE records is applied nothing has been
\* raised, also when the mirror has a column the changeset table lacks, and
\* every mirror row whose identifier has an UPDATE record holds the values of
\* the (last) record in the columns both tables have.
C24_UpdateSharedColumns ==
    applied = 1
        => /\ error = NoError
           /\ \A r \in DOMAIN layer_feature_class.rows :
                 r.id \in DOMAIN UpdatesDict(changeset_fc.rows)
                    => \A f \in (layer_feature_class.fields \cap source_fields)
                                  \ {"id"} :
                          r[f] = UpdatesDict(changeset_fc.rows)[r.id][f]

\* ------------------------------------------------- claims on normalization

\* C25: when applyChangeset starts, and ever after in that invocation, the
\* changeset table has been made by convertJsonToFGB in this invocation and
\* its identifier column is Integer and indexed; and a mirror table, once
\* loaded from an archive, has an Integer, indexed identifier column.
C25_NormalizedBeforeApply ==
    /\ (pc = "applyChangeset" \/ "applyChangeset" \in events)
          => /\ "convertJsonToFGB" \in events
             /\ changeset_fc.exists
             /\ changeset_fc.id_type = "Integer"
             /\ changeset_fc.id_idx2
    /\ layer_feature_class.exists
          => /\ layer_feature_class.id_type = "Integer"
             /\ layer_feature_class.id_idx2

\* a changeset with an insert has been applied to a mirror
C25_Witness ==
    /\ "applyChangeset" \in events
    /\ error = NoError
    /\ report.count_inserts > 0
    /\ layer_feature_class.exists
    /\ changeset_fc.id_type = "Integer"

\* C26: the poll loop makes at most MaxPollingTime / PollInterval, rounded
\* up, status requests; while it is still polling after n requests, n poll
\* intervals have passed since it began and no reply has said complete.
C26_PollLoopBounded ==
    /\ attempt * PollInterval < MaxPollingTime + PollInterval
    /\ pc = "polling"
          => /\ now - start_time >= attempt * PollInterval
             /\ "poll_complete" \notin events

\* the loop has made as many requests as fit and has ended on the time limit
C26_Witness ==
    /\ pc = "raised"
    /\ "poll_timeout" \in events
    /\ attempt >= 2
    /\ attempt * PollInterval >= MaxPollingTime

\* ------------------------------------------------- claims on the purge order

\* C27: an invocation with the purge flag whose action is not INIT and that
\* has ended normally has executed purgeChangesets.
C27_PurgeRunsLast ==
    (pc = "done" /\ purge /\ action # "INIT")
        => "purgeChangesets" \in events

\* ------------------------------------------------- claims on the download

\* the positions of an invocation up to and including the download request
ExportPositions ==
    {"prepare", "validate", "submit", "download_export", "polling", "download"}

\* C28: no second download request follows a download request in the same
\* invocation; once the reply to it is not 200 or 201 the invocation has
\* raised LINZError; and no step up to and including the download request
\* changes the mirror table or last_updated.json.
C28_DownloadNotRetried ==
    [][/\ "download_request" \in events => pc' # "download"
       /\ "download_failed" \in events'
             => pc' = "raised" /\ error'.type = "LINZError"
       /\ pc \in ExportPositions
             => /\ layer_feature_class' = layer_feature_class
                /\ last_updated_file' = last_updated_file]_vars

\* a download failed in an invocation that found a mirror and a watermark
C28_Witness ==
    /\ pc = "raised"
    /\ "download_failed" \in events
    /\ layer_feature_class.exists
    /\ last_updated_file # {}

\* ------------------------------------------------- claims on the windows

\* C29: the last_updated a changeset invocation writes is not later than the
\* end of the window it queried, which is the instant its request was made
\* and the json file is named after.
C29_NoGapBetweenWindows ==
    (action = "REQUESTCHANGESET" /\ "update_last_updated_file" \in events)
        => WatermarkInstant(last_updated_file) <= changeset_file.name

\* C30: the last_updated an invocation of request-download writes is not
\* later than the instant at which it submitted the export.
C30_WatermarkNotAfterSubmission ==
    (action = "REQUESTDOWNLOAD" /\ "update_last_updated_file" \in events)
        => \A d \in last_updated_datetime :
              WatermarkInstant(last_updated_file) <= d.t

\* ------------------------------------------------- claims on resume

\* C31: no step of an invocation whose action is DOWNLOADEXPORT changes the
\* mirror table or last_updated.json, and none of them is purgeChangesets,
\* whatever the replies to the status and download requests are.
C31_ResumeOnlyDownloads ==
    [][(action = "DOWNLOADEXPORT" /\ runs' = runs)
         => /\ layer_feature_class' = layer_feature_class
            /\ last_updated_file' = last_updated_file
            /\ "purgeChangesets" \notin events'
            /\ pc' \in {"download_export", "polling", "download", "done",
                        "raised"}]_vars

\* a resume with the purge flag has downloaded a valid archive and ended,
\* next to a mirror and a watermark of an earlier invocation
C31_Witness ==
    /\ pc = "done"
    /\ action = "DOWNLOADEXPORT"
    /\ purge
    /\ "download_request" \in events
    /\ full_download_file.valid
    /\ layer_feature_class.exists
    /\ last_updated_file # {}

\* ------------------------------------------------- claims on the feed request

\* C32: downloadChangeSet called without a last_updated.json, or with one
\* that holds no last_updated value, raises LINZError; no request is sent, no
\* changeset file is created, and the mirror and last_updated.json are as
\* they were.
C32_NoWatermarkNoRequest ==
    [][(pc = "downloadChangeSet" /\
        (last_updated_file = {} \/ last_updated_file = {NoLastUpdated}))
         => /\ pc' = "raised"
            /\ error'.type = "LINZError"
            /\ "feed_request" \notin events'
            /\ json_files' = json_files
            /\ changeset_file' = changeset_file
            /\ layer_feature_class' = layer_feature_class
            /\ last_updated_file' = last_updated_file]_vars

\* the request was refused for a last_updated.json without a value, next to
\* a mirror with rows
C32_Witness ==
    /\ pc = "raised"
    /\ error.type = "LINZError"
    /\ last_updated_file = {NoLastUpdated}
    /\ layer_feature_class.exists
    /\ layer_feature_class.rows # EmptyBag
    /\ json_files = {}

\* ------------------------------------------------- claims on the purge scope

\* C33: purgeChangesets leaves the mirror table, the extent table and
\* last_updated.json as they are, and what it leaves of the json files, the
\* zip files and the changeset tables was there before; for every retention
\* count and every set of stored artifacts.
C33_PurgeScope ==
    [][pc = "purgeChangesets"
         => /\ layer_feature_class' = layer_feature_class
            /\ extent_geometry' = extent_geometry
            /\ last_updated_file' = last_updated_file
            /\ json_files' \subseteq json_files
            /\ zip_files' \subseteq zip_files
            /\ changeset_tables' \subseteq changeset_tables]_vars

\* a purge has deleted a json file, a zip file and a changeset table; the
\* mirror, the extent record and the watermark are there
C33_Witness ==
    /\ Purged
    /\ json_files # purged.json
    /\ zip_files # purged.zip
    /\ changeset_tables # purged.tables
    /\ layer_feature_class.exists
    /\ extent_geometry # None
    /\ last_updated_file # {}

\* ------------------------------------------------- claims on the mirror's scope

\* no invocation is under way
AtRest == pc \in {"idle", "done", "raised"}

\* the row intersects the extent record, when there is one
IntersectsScope(r) == extent_geometry # None => r.shape = "in"

\* the row satisfies the configured sql_filter, when there is one
SatisfiesPredicate(r) == sql_filter # None => r.val = "a"

\* between invocations every row of the mirror intersects the extent record
ScopeGeometryKept ==
    (AtRest /\ layer_feature_class.exists)
       => \A r \in DOMAIN layer_feature_class.rows : IntersectsScope(r)

NoSuccessWithPredicate ==
    ~(pc = "done" /\ sql_filter # None /\ "filter_sql" \in events)

====
